---- MODULE Spec2Model ----
(***************************************************************************)
(* Model of DebugViewModel                                                 *)
(* (packages/debug/src/browser/view/debug-view-model.ts).                  *)
(*                                                                         *)
(* The view-model keeps an insertion-ordered set of debug sessions, a list *)
(* of watch expressions and a debounced, serialized refresh of those       *)
(* expressions.  It listens to three events of the DebugSessionManager.    *)
(* Every step of the model is one synchronous run of one method, event     *)
(* handler, timer callback or promise continuation of the class (JavaScript*)
(* runs each of them to its next await without interleaving).              *)
(*                                                                         *)
(* The variables op, ret, finished, changed, changedBreakpoints and        *)
(* changedWatchExpressions describe the step that led to the state: which  *)
(* operation ran, what it returned and how many times it called each of    *)
(* the three fire methods; finished describes the refresh cycle that the   *)
(* step ended.                                                             *)
(***************************************************************************)
EXTENDS Naturals, Sequences, FiniteSets, TLC

\* ------------------------------------------------------------------ bounds
NumSessions == 3      \* session handles 1..NumSessions
MaxCalls == 2         \* start()/restart() calls awaiting the manager at once
MaxExpressions == 3   \* watch expressions ever created
MaxQueued == 2        \* refresh cycles chained behind the running one
NumUris == 1          \* resource identifiers of breakpoint notifications
MaxTriggers == 2      \* triggers counted in one debounce window (more count as this)

Sessions == 1..NumSessions
None == 0             \* undefined
Uris == 1..NumUris

\* DebugState (imported from ../debug-session): a numeric enum whose first
\* member, Inactive, is 0 and therefore falsy.
Inactive == 0
Initializing == 1
Running == 2
Stopped == 3
DebugState == {Inactive, Initializing, Running, Stopped}

VARIABLES
    sessions,                \* _sessions: Set<DebugSession>, in insertion order
    managerCurrent,          \* manager.currentSession
    disposed,                \* toDispose.disposed
    calls,                   \* start()/restart() calls awaiting the manager
    watchExpressions,        \* _watchExpressions
    nextId,                  \* identity of the next DebugWatchExpression object
    opens,                   \* addWatchExpression() calls awaiting open()
    timer,                   \* the debounce timer of refreshWatchExpressions is armed
    queued,                  \* cycles chained on refreshWatchExpressionsQueue, not begun
    running,                 \* refresh cycles that have begun and not finished
    lastCycle,               \* the refresh cycle that finished last ended in an error
    op,                      \* the operation of the last step
    ret,                     \* its return value
    finished,                \* the refresh cycle it ended, if op is "cycleEnd"
    changed,                 \* fireDidChange() calls of the last step
    changedBreakpoints,      \* uri of its fireDidChangeBreakpoints(uri), or None
    changedWatchExpressions, \* fireDidChangeWatchExpressions() calls of the last step
    elapsed,                 \* time has passed since the timer was last (re)armed
    window,                  \* refreshWatchExpressions() calls since the timer was off
    follow,                  \* how far one accepted refresh trigger has come
    cycleStart               \* _watchExpressions as the running cycle found it

sessVars == <<sessions, managerCurrent, calls>>
watchVars == <<watchExpressions, nextId, opens>>
queueVars == <<timer, queued, running, lastCycle>>
stepVars == <<op, ret, finished, changed, changedBreakpoints, changedWatchExpressions>>
\* Time and history: the steps of SessionNext and WatchNext leave them as they are.
auxVars == <<elapsed, window, follow, cycleStart>>
vars == <<sessVars, disposed, watchVars, queueVars, stepVars, auxVars>>

\* ----------------------------------------------------------------- helpers
Range(s) == {s[i] : i \in 1..Len(s)}

\* Set.prototype.add: a value already present keeps its place.
SetAdd(set, s) == IF s \in Range(set) THEN set ELSE Append(set, s)

\* Set.prototype.delete
SetDelete(set, s) == SelectSeq(set, LAMBDA x : x # s)

Op(name, a, b) == [name |-> name, arg |-> a, arg2 |-> b]

\* The value of `finished` after a step that ended no refresh cycle.
NoCycle == [evaluated |-> <<>>, intact |-> TRUE, afterError |-> FALSE, failedAt |-> 0]

\* The step fires "changed" n times and nothing else.
Step(o, r, n) ==
    /\ op' = o
    /\ ret' = r
    /\ finished' = NoCycle
    /\ changed' = n
    /\ changedBreakpoints' = None
    /\ changedWatchExpressions' = 0

\* ------------------------------------------------------------- session set
sessionCount == Len(sessions)

\* get session(): this.sessions.next().value
session == IF sessions = <<>> THEN None ELSE sessions[1]

\* Faulty variant: has() takes every session for a member.
hasAny(s) == s # None

has(s) == s # None /\ s \in Range(sessions)

\* Faulty variant: the manager's active session is taken without the membership test.
currentSessionUnchecked == IF managerCurrent # None THEN managerCurrent ELSE session

currentSession == IF has(managerCurrent) THEN managerCurrent ELSE session

\* Faulty variant: the state is read through the manager's active session.
stateOfManager(reported) ==
    IF managerCurrent # None /\ reported # 0 THEN reported ELSE Inactive

\* get state(): currentSession && currentSession.state || DebugState.Inactive,
\* where reported is what currentSession.state returns at the read.
state(reported) ==
    IF currentSession # None /\ reported # 0 THEN reported ELSE Inactive

\* Faulty variant: push without the duplicate test.
pushUnchecked(s) ==
    /\ sessions' = SetAdd(sessions, s)
    /\ Step(Op("push", s, None), None, 1)
    /\ UNCHANGED <<managerCurrent, calls, disposed, watchVars, queueVars>>

push(s) ==
    /\ IF s \in Range(sessions)
         THEN /\ UNCHANGED sessions
              /\ Step(Op("push", s, None), None, 0)
         ELSE /\ sessions' = SetAdd(sessions, s)
              /\ Step(Op("push", s, None), None, 1)
    /\ UNCHANGED <<managerCurrent, calls, disposed, watchVars, queueVars>>

delete(s) ==
    /\ IF s \in Range(sessions)
         THEN /\ sessions' = SetDelete(sessions, s)
              /\ Step(Op("delete", s, None), TRUE, 1)
         ELSE /\ UNCHANGED sessions
              /\ Step(Op("delete", s, None), FALSE, 0)
    /\ UNCHANGED <<managerCurrent, calls, disposed, watchVars, queueVars>>

\* A read of the state getter while the current session reports `reported`.
ReadState(reported) ==
    /\ Step(Op("state", reported, None), state(reported), 0)
    /\ UNCHANGED <<sessVars, disposed, watchVars, queueVars>>

\* ------------------------------------------------------ manager's events
\* Faulty variant: the handler tests the current session only.
activeChangedCurrentOnly(cur) ==
    /\ cur # managerCurrent
    /\ managerCurrent' = cur
    /\ Step(Op("activeChanged", managerCurrent, cur), None,
            IF ~disposed /\ ~has(cur) THEN 1 ELSE 0)
    /\ UNCHANGED <<sessions, calls, disposed, watchVars, queueVars>>

\* Faulty variant: the handler reports every change of membership, in either direction.
activeChangedEitherWay(cur) ==
    /\ cur # managerCurrent
    /\ managerCurrent' = cur
    /\ Step(Op("activeChanged", managerCurrent, cur), None,
            IF ~disposed /\ has(managerCurrent) # has(cur) THEN 1 ELSE 0)
    /\ UNCHANGED <<sessions, calls, disposed, watchVars, queueVars>>

\* The manager's active session becomes cur; it notifies
\* onDidChangeActiveDebugSession({previous, current}), which reaches the
\* handler of init() until the subscription is disposed.
onDidChangeActiveDebugSession(cur) ==
    /\ cur # managerCurrent
    /\ managerCurrent' = cur
    /\ Step(Op("activeChanged", managerCurrent, cur), None,
            IF ~disposed /\ has(managerCurrent) /\ ~has(cur) THEN 1 ELSE 0)
    /\ UNCHANGED <<sessions, calls, disposed, watchVars, queueVars>>

\* Faulty variant: the handler accepts the notification of any member of the set.
onDidChangeBreakpointsOfMember(s, uri) ==
    /\ op' = Op("onDidChangeBreakpoints", s, uri)
    /\ ret' = None
    /\ finished' = NoCycle
    /\ changed' = 0
    /\ changedBreakpoints' =
          IF ~disposed /\ (s = None \/ has(s)) THEN uri ELSE None
    /\ changedWatchExpressions' = 0
    /\ UNCHANGED <<sessVars, disposed, watchVars, queueVars>>

\* The manager notifies onDidChangeBreakpoints({session, uri}).
onDidChangeBreakpoints(s, uri) ==
    /\ op' = Op("onDidChangeBreakpoints", s, uri)
    /\ ret' = None
    /\ finished' = NoCycle
    /\ changed' = 0
    /\ changedBreakpoints' =
          IF ~disposed /\ (s = None \/ s = currentSession) THEN uri ELSE None
    /\ changedWatchExpressions' = 0
    /\ UNCHANGED <<sessVars, disposed, watchVars, queueVars>>

\* Faulty variant: dispose() also drops the calls awaiting the manager, the timer
\* and the cycles that have not begun.
disposeCancels ==
    /\ ~disposed
    /\ disposed' = TRUE
    /\ calls' = <<>>
    /\ timer' = FALSE
    /\ queued' = 0
    /\ Step(Op("dispose", None, None), None, 0)
    /\ UNCHANGED <<sessions, managerCurrent, watchVars, running, lastCycle>>

dispose ==
    /\ ~disposed
    /\ disposed' = TRUE
    /\ Step(Op("dispose", None, None), None, 0)
    /\ UNCHANGED <<sessVars, watchVars, queueVars>>

\* What the listeners of the three signals received in the last step.
\* toDispose holds onDidChangeEmitter and onDidChangeBreakpointsEmitter, and a
\* disposed emitter has no listeners; onDidChangeWatchExpressionsEmitter is
\* not in toDispose.
changedDelivered == IF disposed THEN 0 ELSE changed
changedBreakpointsDelivered == IF disposed THEN None ELSE changedBreakpoints
changedWatchExpressionsDelivered == changedWatchExpressions

\* ------------------------------------------------------- start / restart
\* A call awaiting the manager: the session captured by `const { session }`
\* and, for start(), sessionCount at the call.
Call(kind, s) ==
    [kind |-> kind, session |-> s,
     count |-> IF kind = "start" THEN sessionCount ELSE None]

Without(seq, i) == SubSeq(seq, 1, i - 1) \o SubSeq(seq, i + 1, Len(seq))

\* Faulty variant: start() captures the current session instead of the first member.
startCurrent ==
    IF currentSession = None
      THEN /\ Step(Op("start", None, None), None, 0)
           /\ UNCHANGED <<sessVars, disposed, watchVars, queueVars>>
      ELSE /\ Len(calls) < MaxCalls
           /\ calls' = Append(calls, Call("start", currentSession))
           /\ Step(Op("start", currentSession, None), None, 0)
           /\ UNCHANGED <<sessions, managerCurrent, disposed, watchVars, queueVars>>

start ==
    IF session = None
      THEN /\ Step(Op("start", None, None), None, 0)
           /\ UNCHANGED <<sessVars, disposed, watchVars, queueVars>>
      ELSE /\ Len(calls) < MaxCalls
           /\ calls' = Append(calls, Call("start", session))
           /\ Step(Op("start", session, None), None, 0)
           /\ UNCHANGED <<sessions, managerCurrent, disposed, watchVars, queueVars>>

\* Faulty variant: the new session is added and the old one is left in the set.
startReturnKeepsOld(i, newSession) ==
    /\ calls[i].kind = "start"
    /\ calls' = Without(calls, i)
    /\ IF newSession # None
         THEN /\ sessions' = SetAdd(sessions, newSession)
              /\ Step(Op("startReturn", calls[i].session, newSession), calls[i].count, 1)
         ELSE /\ UNCHANGED sessions
              /\ Step(Op("startReturn", calls[i].session, newSession), calls[i].count, 0)
    /\ UNCHANGED <<managerCurrent, disposed, watchVars, queueVars>>

\* manager.start(session.options) answers call i with newSession.
startReturn(i, newSession) ==
    /\ calls[i].kind = "start"
    /\ calls' = Without(calls, i)
    /\ IF newSession # None
         THEN /\ sessions' = SetAdd(SetDelete(sessions, calls[i].session), newSession)
              /\ Step(Op("startReturn", calls[i].session, newSession), calls[i].count, 1)
         ELSE /\ UNCHANGED sessions
              /\ Step(Op("startReturn", calls[i].session, newSession), calls[i].count, 0)
    /\ UNCHANGED <<managerCurrent, disposed, watchVars, queueVars>>

restart ==
    IF session = None
      THEN /\ Step(Op("restart", None, None), None, 0)
           /\ UNCHANGED <<sessVars, disposed, watchVars, queueVars>>
      ELSE /\ Len(calls) < MaxCalls
           /\ calls' = Append(calls, Call("restart", session))
           /\ Step(Op("restart", session, None), None, 0)
           /\ UNCHANGED <<sessions, managerCurrent, disposed, watchVars, queueVars>>

\* Faulty variant: "changed" is fired inside the if, only when the session was swapped.
restartReturnQuiet(i, newSession) ==
    /\ calls[i].kind = "restart"
    /\ calls' = Without(calls, i)
    /\ IF newSession # calls[i].session
         THEN /\ sessions' = SetAdd(SetDelete(sessions, calls[i].session), newSession)
              /\ Step(Op("restartReturn", calls[i].session, newSession), calls[i].count, 1)
         ELSE /\ UNCHANGED sessions
              /\ Step(Op("restartReturn", calls[i].session, newSession), calls[i].count, 0)
    /\ UNCHANGED <<managerCurrent, disposed, watchVars, queueVars>>

\* manager.restart(session) answers call i with newSession.
restartReturn(i, newSession) ==
    /\ calls[i].kind = "restart"
    /\ calls' = Without(calls, i)
    /\ IF newSession # calls[i].session
         THEN sessions' = SetAdd(SetDelete(sessions, calls[i].session), newSession)
         ELSE UNCHANGED sessions
    /\ Step(Op("restartReturn", calls[i].session, newSession), calls[i].count, 1)
    /\ UNCHANGED <<managerCurrent, disposed, watchVars, queueVars>>

\* ------------------------------------------------------ watch expressions
\* What the edit step of open() can leave as the expression's text.
Texts == {"", "x"}

\* The list changed under the refresh cycles that are running.
Touched(cycles) == [i \in 1..Len(cycles) |-> [cycles[i] EXCEPT !.intact = FALSE]]

WatchStep(o, r, n) ==
    /\ op' = o
    /\ ret' = r
    /\ finished' = NoCycle
    /\ changed' = 0
    /\ changedBreakpoints' = None
    /\ changedWatchExpressions' = n

\* addWatchExpression up to `await watchExpression.open()`.
addWatchExpression ==
    /\ nextId <= MaxExpressions
    /\ nextId' = nextId + 1
    /\ opens' = opens \cup {nextId}
    /\ WatchStep(Op("addWatchExpression", nextId, None), None, 0)
    /\ UNCHANGED <<sessVars, disposed, watchExpressions, queueVars>>

\* Faulty variant: the expression is added whatever text the edit left.
openReturnKeepsEmpty(e, text) ==
    /\ e \in opens
    /\ opens' = opens \ {e}
    /\ watchExpressions' = Append(watchExpressions, e)
    /\ running' = Touched(running)
    /\ WatchStep(Op("openReturn", e, text), e, 1)
    /\ UNCHANGED <<sessVars, disposed, nextId, timer, queued, lastCycle>>

\* open() of expression e returns, its text being `text`.
openReturn(e, text) ==
    /\ e \in opens
    /\ opens' = opens \ {e}
    /\ IF text = ""
         THEN /\ UNCHANGED <<watchExpressions, running>>
              /\ WatchStep(Op("openReturn", e, text), None, 0)
         ELSE /\ watchExpressions' = Append(watchExpressions, e)
              /\ running' = Touched(running)
              /\ WatchStep(Op("openReturn", e, text), e, 1)
    /\ UNCHANGED <<sessVars, disposed, nextId, timer, queued, lastCycle>>

\* Faulty variant: the signal is fired whether the list had entries or not.
removeWatchExpressionsLoud ==
    /\ watchExpressions' = <<>>
    /\ running' = Touched(running)
    /\ WatchStep(Op("removeWatchExpressions", None, None), None, 1)
    /\ UNCHANGED <<sessVars, disposed, nextId, opens, timer, queued, lastCycle>>

removeWatchExpressions ==
    /\ IF Len(watchExpressions) # 0
         THEN /\ watchExpressions' = <<>>
              /\ running' = Touched(running)
              /\ WatchStep(Op("removeWatchExpressions", None, None), None, 1)
         ELSE /\ UNCHANGED <<watchExpressions, running>>
              /\ WatchStep(Op("removeWatchExpressions", None, None), None, 0)
    /\ UNCHANGED <<sessVars, disposed, nextId, opens, timer, queued, lastCycle>>

removeWatchExpression(e) ==
    /\ e < nextId
    /\ IF e \in Range(watchExpressions)
         THEN /\ watchExpressions' = SetDelete(watchExpressions, e)
              /\ running' = Touched(running)
              /\ WatchStep(Op("removeWatchExpression", e, None), None, 1)
         ELSE /\ UNCHANGED <<watchExpressions, running>>
              /\ WatchStep(Op("removeWatchExpression", e, None), None, 0)
    /\ UNCHANGED <<sessVars, disposed, nextId, opens, timer, queued, lastCycle>>

\* ------------------------------------------------------- debounced refresh
\* Faulty variant: the subscription is not handed to toDispose, so the handler
\* is still reached after dispose().
onDidChangeNotReleased(cur) ==
    /\ IF cur = None \/ has(cur)
         THEN /\ timer' = TRUE
              /\ Step(Op("onDidChange", cur, None), None, 1)
         ELSE /\ UNCHANGED timer
              /\ Step(Op("onDidChange", cur, None), None, 0)
    /\ UNCHANGED <<sessVars, disposed, watchVars, queued, running, lastCycle>>

\* Faulty variant: the handler does not test the membership of the session.
onDidChangeOfAny(cur) ==
    /\ IF ~disposed
         THEN /\ timer' = TRUE
              /\ Step(Op("onDidChange", cur, None), None, 1)
         ELSE /\ UNCHANGED timer
              /\ Step(Op("onDidChange", cur, None), None, 0)
    /\ UNCHANGED <<sessVars, disposed, watchVars, queued, running, lastCycle>>

\* The manager notifies onDidChange(cur), which reaches the handler of init()
\* until the subscription is disposed.  refreshWatchExpressions() is the
\* debounced function: a call (re)arms its timer.
onDidChange(cur) ==
    /\ IF ~disposed /\ (cur = None \/ has(cur))
         THEN /\ timer' = TRUE
              /\ Step(Op("onDidChange", cur, None), None, 1)
         ELSE /\ UNCHANGED timer
              /\ Step(Op("onDidChange", cur, None), None, 0)
    /\ UNCHANGED <<sessVars, disposed, watchVars, queued, running, lastCycle>>

\* Faulty variant: a call does not clear the timer of the call before, so every
\* call of the window chains a cycle of its own.
timerFireEach ==
    /\ timer
    /\ queued < MaxQueued
    /\ timer' = FALSE
    /\ queued' = queued + window
    /\ WatchStep(Op("timerFire", None, None), None, 0)
    /\ UNCHANGED <<sessVars, disposed, watchVars, running, lastCycle>>

\* The timer expires and the debounced function runs:
\* this.refreshWatchExpressionsQueue = this.refreshWatchExpressionsQueue.then(cycle)
timerFire ==
    /\ timer
    /\ queued < MaxQueued
    /\ timer' = FALSE
    /\ queued' = queued + 1
    /\ WatchStep(Op("timerFire", None, None), None, 0)
    /\ UNCHANGED <<sessVars, disposed, watchVars, running, lastCycle>>

\* Faulty variant: the cycle is not chained on the queue and begins at once.
notChained == TRUE

\* The promise the first chained cycle waits for is settled: the cycle
\* chained before it has finished.
predecessorSettled == running = <<>>

\* A refresh cycle as it finishes: the expressions on which it called
\* evaluate(), in order; whether the list stayed as it was throughout the
\* cycle; whether the cycle before it ended in an error; and failedAt, how many
\* evaluate() calls it had made when one of them raised (0: none raised).
Finished(c, failedAt) ==
    [evaluated |-> c.evaluated, intact |-> c.intact,
     afterError |-> c.afterError, failedAt |-> failedAt]

\* The step ends a refresh cycle and fires nothing.
CycleEnd(c) ==
    /\ op' = Op("cycleEnd", None, None)
    /\ ret' = None
    /\ finished' = c
    /\ changed' = 0
    /\ changedBreakpoints' = None
    /\ changedWatchExpressions' = 0

\* The cycle body begins: the iterator of the for-of loop is at index 0.
cycleBegin ==
    /\ queued > 0
    /\ predecessorSettled
    /\ queued' = queued - 1
    /\ IF Len(watchExpressions) = 0
         THEN /\ UNCHANGED running
              /\ lastCycle' = FALSE
              /\ CycleEnd([evaluated |-> <<>>, intact |-> TRUE,
                            afterError |-> lastCycle, failedAt |-> 0])
         ELSE /\ running' = Append(running,
                     [idx |-> 1, evaluated |-> <<watchExpressions[1]>>,
                      intact |-> TRUE, afterError |-> lastCycle])
              /\ UNCHANGED lastCycle
              /\ WatchStep(Op("evaluate", watchExpressions[1], None), None, 0)
    /\ UNCHANGED <<sessVars, disposed, watchVars, timer>>

\* The evaluate() awaited by running cycle i returns: the loop goes on with
\* the element at the iterator's index, if the array has one.
evaluateReturn(i) ==
    /\ i \in 1..Len(running)
    /\ LET c == running[i] IN
       IF c.idx < Len(watchExpressions)
         THEN /\ running' = [running EXCEPT ![i] =
                     [c EXCEPT !.idx = c.idx + 1,
                               !.evaluated = Append(c.evaluated, watchExpressions[c.idx + 1])]]
              /\ UNCHANGED lastCycle
              /\ WatchStep(Op("evaluate", watchExpressions[c.idx + 1], None), None, 0)
         ELSE /\ running' = Without(running, i)
              /\ lastCycle' = FALSE
              /\ CycleEnd(Finished(c, 0))
    /\ UNCHANGED <<sessVars, disposed, watchVars, timer, queued>>

\* Faulty variant: the error is caught inside the loop, which goes on to the next
\* expression before the cycle ends.
evaluateRaiseGoesOn(i) ==
    /\ i \in 1..Len(running)
    /\ running' = Without(running, i)
    /\ lastCycle' = TRUE
    /\ LET c == running[i] IN
       CycleEnd(Finished([c EXCEPT !.evaluated =
                              IF c.idx < Len(watchExpressions)
                                THEN Append(c.evaluated, watchExpressions[c.idx + 1])
                                ELSE c.evaluated],
                          Len(c.evaluated)))
    /\ UNCHANGED <<sessVars, disposed, watchVars, timer, queued>>

\* Faulty variant: the error is not caught, the promise of the cycle is rejected
\* and the cycles chained on it are skipped.
evaluateRaiseUncaught(i) ==
    /\ i \in 1..Len(running)
    /\ running' = Without(running, i)
    /\ lastCycle' = TRUE
    /\ queued' = 0
    /\ CycleEnd(Finished(running[i], Len(running[i].evaluated)))
    /\ UNCHANGED <<sessVars, disposed, watchVars, timer>>

\* The evaluate() awaited by running cycle i raises: caught and logged.
evaluateRaise(i) ==
    /\ i \in 1..Len(running)
    /\ running' = Without(running, i)
    /\ lastCycle' = TRUE
    /\ CycleEnd(Finished(running[i], Len(running[i].evaluated)))
    /\ UNCHANGED <<sessVars, disposed, watchVars, timer, queued>>

\* ------------------------------------------------ the debounce in time
\* debounce(f, 50): a call of the debounced function clears the timer, if it
\* is armed, and arms it anew; f runs when 50 ms have passed with no further
\* call.  `elapsed` says that time has passed since the timer was last
\* (re)armed; how much is left open, so the timer can fire from then on.
timePasses ==
    /\ timer
    /\ ~elapsed
    /\ elapsed' = TRUE
    /\ WatchStep(Op("timePasses", None, None), None, 0)
    /\ UNCHANGED <<sessVars, disposed, watchVars, queueVars, window, follow, cycleStart>>

\* The trigger that `follow` follows: none; one whose timer is armed; one whose
\* cycle is chained on the queue, `ahead` cycles having to begin before it; one
\* whose cycle is running; one whose cycle has run to its end.
NotFollowed == [stage |-> "none", ahead |-> 0]
Served == [stage |-> "served", ahead |-> 0]

\* A trigger waits for the timer and is followed from now on.
Followed == [stage |-> "timer", ahead |-> 0]

\* The manager notifies onDidChange(cur) at some moment of time.  If the
\* handler called refreshWatchExpressions(), the window begins anew, and the
\* trigger is followed or not.
onDidChangeInTime(cur) ==
    /\ onDidChange(cur)
    /\ IF changed' = 1
         THEN /\ elapsed' = FALSE
              /\ window' = IF ~timer THEN 1
                            ELSE IF window < MaxTriggers THEN window + 1 ELSE window
              /\ follow' \in IF follow \in {NotFollowed, Served}
                                THEN {NotFollowed, Followed}
                                ELSE {follow}
         ELSE UNCHANGED <<elapsed, window, follow>>
    /\ UNCHANGED cycleStart

\* The timer fires when time has passed since it was last armed: the cycle of
\* a followed trigger is chained behind the cycles that have not begun.
timerFireInTime ==
    /\ elapsed
    /\ timerFire
    /\ elapsed' = FALSE
    /\ follow' = IF follow.stage = "timer"
                   THEN [stage |-> "queue", ahead |-> queued]
                   ELSE follow
    /\ UNCHANGED <<window, cycleStart>>

\* A cycle begins: the followed one, if none has to begin before it.
cycleBeginFollowed ==
    /\ cycleBegin
    /\ follow' = IF follow.stage # "queue" THEN follow
                   ELSE IF follow.ahead > 0
                          THEN [follow EXCEPT !.ahead = follow.ahead - 1]
                   ELSE IF running' = <<>> THEN Served
                   ELSE [stage |-> "cycle", ahead |-> 0]
    /\ UNCHANGED <<elapsed, window, cycleStart>>

\* An evaluation of the running cycle returns or raises: if the cycle ends and
\* it is the followed one, its trigger has been served.
evaluateReturnFollowed(i) ==
    /\ evaluateReturn(i)
    /\ follow' = IF follow.stage = "cycle" /\ Len(running') < Len(running)
                   THEN Served ELSE follow
    /\ UNCHANGED <<elapsed, window, cycleStart>>

evaluateRaiseFollowed(i) ==
    /\ evaluateRaise(i)
    /\ follow' = IF follow.stage = "cycle" /\ Len(running') < Len(running)
                   THEN Served ELSE follow
    /\ UNCHANGED <<elapsed, window, cycleStart>>

\* A cycle begins; cycleStart keeps the list as the cycle found it.
cycleBeginAtList ==
    /\ cycleBegin
    /\ cycleStart' = watchExpressions
    /\ UNCHANGED <<elapsed, window, follow>>

\* ---------------------------------------------------------- specification
\* After construction and init(): options.session, if any, has been pushed.
Init ==
    /\ \E s \in Sessions \cup {None} :
          sessions = IF s = None THEN <<>> ELSE <<s>>
    /\ managerCurrent \in Sessions \cup {None}
    /\ disposed = FALSE
    /\ calls = <<>>
    /\ watchExpressions = <<>>
    /\ nextId = 1
    /\ opens = {}
    /\ timer = FALSE
    /\ queued = 0
    /\ running = <<>>
    /\ lastCycle = FALSE
    /\ op = Op("init", None, None)
    /\ ret = None
    /\ finished = NoCycle
    /\ changed = 0
    /\ changedBreakpoints = None
    /\ changedWatchExpressions = 0
    /\ elapsed = FALSE
    /\ window = 0
    /\ follow = NotFollowed
    /\ cycleStart = <<>>

SessionNext ==
    \/ \E s \in Sessions : push(s) /\ UNCHANGED auxVars
    \/ \E s \in Sessions : delete(s) /\ UNCHANGED auxVars
    \/ \E st \in DebugState : ReadState(st) /\ UNCHANGED auxVars
    \/ \E cur \in Sessions \cup {None} : onDidChangeActiveDebugSession(cur) /\ UNCHANGED auxVars
    \/ \E s \in Sessions \cup {None}, uri \in Uris : onDidChangeBreakpoints(s, uri) /\ UNCHANGED auxVars
    \/ start /\ UNCHANGED auxVars
    \/ \E i \in 1..Len(calls), n \in Sessions \cup {None} : startReturn(i, n) /\ UNCHANGED auxVars
    \/ restart /\ UNCHANGED auxVars
    \/ \E i \in 1..Len(calls), n \in Sessions : restartReturn(i, n) /\ UNCHANGED auxVars
    \/ dispose /\ UNCHANGED auxVars

WatchNext ==
    \/ addWatchExpression /\ UNCHANGED auxVars
    \/ \E e \in 1..MaxExpressions, text \in Texts : openReturn(e, text) /\ UNCHANGED auxVars
    \/ removeWatchExpressions /\ UNCHANGED auxVars
    \/ \E e \in 1..MaxExpressions : removeWatchExpression(e) /\ UNCHANGED auxVars
    \/ \E cur \in Sessions \cup {None} : onDidChange(cur) /\ UNCHANGED auxVars
    \/ timerFire /\ UNCHANGED auxVars
    \/ cycleBegin /\ UNCHANGED auxVars
    \/ \E i \in 1..MaxQueued : evaluateReturn(i) /\ UNCHANGED auxVars
    \/ \E i \in 1..MaxQueued : evaluateRaise(i) /\ UNCHANGED auxVars
    \/ dispose /\ UNCHANGED auxVars

Next == SessionNext \/ WatchNext

Spec == Init /\ [][Next]_vars

\* The session set and the manager's events alone.
SessionSpec == Init /\ [][SessionNext]_vars

\* The watch expressions and their refresh alone: the session set does not
\* change, so one member and one active session stand for all.
WatchInit == Init /\ managerCurrent = None /\ sessions \in {<<>>, <<1>>}

WatchSpec == WatchInit /\ [][WatchNext]_vars

\* The view-model with options.session s (or none), the manager's active
\* session being cur, after addWatchExpression calls have left a list.
AfterAdds(s, cur) ==
    /\ \E n \in 0..MaxExpressions - 1 :
          /\ watchExpressions = [i \in 1..n |-> i]
          /\ nextId = n + 1
    /\ sessions = IF s = None THEN <<>> ELSE <<s>>
    /\ managerCurrent = cur
    /\ disposed = FALSE
    /\ calls = <<>>
    /\ opens = {}
    /\ timer = FALSE
    /\ queued = 0
    /\ running = <<>>
    /\ lastCycle = FALSE
    /\ op = Op("init", None, None)
    /\ ret = None
    /\ finished = NoCycle
    /\ changed = 0
    /\ changedBreakpoints = None
    /\ changedWatchExpressions = 0
    /\ elapsed = FALSE
    /\ window = 0
    /\ follow = NotFollowed
    /\ cycleStart = <<>>

\* The refresh in time: the debounce window, the queue and the cycles.  The
\* list does not change.
DebounceInit == \E s \in {None, 1} : AfterAdds(s, None)

DebounceNext ==
    \/ \E cur \in Sessions \cup {None} : onDidChangeInTime(cur)
    \/ timePasses
    \/ timerFireInTime
    \/ cycleBeginFollowed
    \/ \E i \in 1..MaxQueued : evaluateReturnFollowed(i)
    \/ \E i \in 1..MaxQueued : evaluateRaiseFollowed(i)
    \/ dispose /\ UNCHANGED auxVars

DebounceSpec == DebounceInit /\ [][DebounceNext]_vars

\* What the scheduling gives: time passes; a timer that stays armed without
\* being re-armed fires; a chained cycle whose predecessor is settled begins.
\* That every evaluate() returns or raises is the proviso of the liveness
\* claim.
\* Each of these steps changes progressVars.
progressVars == <<timer, elapsed, queued, running>>

Fairness ==
    /\ WF_progressVars(timePasses)
    /\ WF_progressVars(timerFireInTime)
    /\ WF_progressVars(cycleBeginFollowed)
    /\ WF_progressVars(\E i \in 1..MaxQueued :
                          evaluateReturnFollowed(i) \/ evaluateRaiseFollowed(i))

FairDebounceSpec == DebounceSpec /\ Fairness

\* Disposal among the manager's three notifications, the changes of the
\* session set and the debounce timer.
DisposalInit == \E s \in Sessions \cup {None}, cur \in Sessions \cup {None} : AfterAdds(s, cur)

DisposalNext ==
    \/ \E s \in Sessions : push(s) /\ UNCHANGED auxVars
    \/ \E s \in Sessions : delete(s) /\ UNCHANGED auxVars
    \/ \E cur \in Sessions \cup {None} : onDidChangeActiveDebugSession(cur) /\ UNCHANGED auxVars
    \/ \E cur \in Sessions \cup {None} : onDidChange(cur) /\ UNCHANGED auxVars
    \/ \E s \in Sessions \cup {None}, uri \in Uris : onDidChangeBreakpoints(s, uri) /\ UNCHANGED auxVars
    \/ timerFire /\ UNCHANGED auxVars
    \/ dispose /\ UNCHANGED auxVars

DisposalSpec == DisposalInit /\ [][DisposalNext]_vars

\* Disposal among the work in flight: start() and restart() calls awaiting the
\* manager, and the refresh from its trigger to the end of its cycle.
InFlightInit == \E s \in {None, 1} : AfterAdds(s, None)

InFlightNext ==
    \/ start /\ UNCHANGED auxVars
    \/ \E i \in 1..Len(calls), n \in Sessions \cup {None} : startReturn(i, n) /\ UNCHANGED auxVars
    \/ restart /\ UNCHANGED auxVars
    \/ \E i \in 1..Len(calls), n \in Sessions : restartReturn(i, n) /\ UNCHANGED auxVars
    \/ \E cur \in Sessions \cup {None} : onDidChange(cur) /\ UNCHANGED auxVars
    \/ timerFire /\ UNCHANGED auxVars
    \/ cycleBegin /\ UNCHANGED auxVars
    \/ \E i \in 1..MaxQueued : evaluateReturn(i) /\ UNCHANGED auxVars
    \/ \E i \in 1..MaxQueued : evaluateRaise(i) /\ UNCHANGED auxVars
    \/ dispose /\ UNCHANGED auxVars

InFlightSpec == InFlightInit /\ [][InFlightNext]_vars

\* The watch expressions and their refresh, each cycle with the list it began
\* on.
CycleNext ==
    \/ addWatchExpression /\ UNCHANGED auxVars
    \/ \E e \in 1..MaxExpressions, text \in Texts : openReturn(e, text) /\ UNCHANGED auxVars
    \/ removeWatchExpressions /\ UNCHANGED auxVars
    \/ \E e \in 1..MaxExpressions : removeWatchExpression(e) /\ UNCHANGED auxVars
    \/ \E cur \in Sessions \cup {None} : onDidChange(cur) /\ UNCHANGED auxVars
    \/ timerFire /\ UNCHANGED auxVars
    \/ cycleBeginAtList
    \/ \E i \in 1..MaxQueued : evaluateReturn(i) /\ UNCHANGED auxVars
    \/ \E i \in 1..MaxQueued : evaluateRaise(i) /\ UNCHANGED auxVars
    \/ dispose /\ UNCHANGED auxVars

CycleSpec == WatchInit /\ [][CycleNext]_vars

\* ------------------------------------------------------------------ claims
Members == Range(sessions)

\* C1: a push or delete call fires "changed" exactly once if it alters the
\* membership of the session set and not at all otherwise (a push of a member,
\* a delete of a non-member); delete returns true exactly when it removed the
\* session.
C1_ChangedOncePerMembershipChange ==
    [][op'.name \in {"push", "delete"} =>
         /\ changed' = IF Range(sessions') # Members THEN 1 ELSE 0
         /\ op'.name = "push" =>
              /\ Range(sessions') = Members \cup {op'.arg}
              /\ op'.arg \in Members => changed' = 0 /\ sessions' = sessions
         /\ op'.name = "delete" =>
              /\ Range(sessions') = Members \ {op'.arg}
              /\ ret' = (op'.arg \in Members)
              /\ op'.arg \notin Members => changed' = 0 /\ sessions' = sessions]_vars

\* A push of a session already present has just fired nothing.
C1_Witness ==
    /\ op.name = "push"
    /\ changed = 0
    /\ op.arg \in Members
    /\ Len(sessions) >= 2

\* C2: currentSession is the manager's active session when that is a member of
\* the set; otherwise the first-inserted member still present; None when the
\* set is empty.
C2_CurrentSessionResolution ==
    /\ (managerCurrent # None /\ managerCurrent \in Members)
          => currentSession = managerCurrent
    /\ (managerCurrent = None \/ managerCurrent \notin Members)
          => currentSession = (IF sessions = <<>> THEN None ELSE Head(sessions))
    /\ sessions = <<>> => currentSession = None

\* The manager's active session is not a member, and a delete has just left
\* two members: the current session is the older of them.
C2_Witness ==
    /\ op.name = "delete"
    /\ ret = TRUE
    /\ managerCurrent # None
    /\ managerCurrent \notin Members
    /\ Len(sessions) = 2
    /\ currentSession = sessions[1]

\* C3 as stated: state is Inactive if and only if currentSession is absent.
C3_InactiveIffNoCurrentSession ==
    op.name = "state" => (ret = Inactive <=> currentSession = None)

\* C3 amended: state is Inactive if and only if currentSession is absent or
\* the current session itself reports Inactive; otherwise state is what the
\* current session reports.  (Whatever number the enum gives Inactive: a falsy
\* one is replaced by Inactive, a truthy one is returned as it is.)
C3_InactiveIffAbsentOrReported ==
    op.name = "state" =>
        /\ ret = Inactive <=> (currentSession = None \/ op.arg = Inactive)
        /\ ret # Inactive => ret = op.arg

\* A current session exists, reports Inactive, and state is Inactive.
C3_Witness ==
    /\ op.name = "state"
    /\ currentSession # None
    /\ op.arg = Inactive
    /\ ret = Inactive

\* C4: before disposal, the handler of the active-session-changed event fires
\* "changed" (once) exactly when the previous session is a member and the
\* current one is not.
C4_ActiveChangedEmitsOnLeaving ==
    (op.name = "activeChanged" /\ ~disposed) =>
        /\ changed = IF has(op.arg) /\ ~has(op.arg2) THEN 1 ELSE 0
        /\ managerCurrent = op.arg2
        /\ changedBreakpoints = None
        /\ changedWatchExpressions = 0

\* The active session has just gone from a member to a non-member session.
C4_Witness ==
    /\ op.name = "activeChanged"
    /\ ~disposed
    /\ has(op.arg)
    /\ op.arg2 # None
    /\ ~has(op.arg2)
    /\ changed = 1

\* The step of C5: the set is {A}, the manager's active session goes from a
\* non-member B to A, before disposal.
C5_Scenario ==
    /\ op'.name = "activeChanged"
    /\ ~disposed
    /\ Len(sessions) = 1
    /\ managerCurrent # None
    /\ ~has(managerCurrent)
    /\ managerCurrent' = sessions[1]

\* C5 as stated: currentSession is A before and after, and "changed" fires
\* once for the transition.
C5_EnteringMembershipFiresOnce ==
    [][C5_Scenario =>
         /\ currentSession = sessions[1]
         /\ currentSession' = sessions[1]
         /\ changed' = 1]_vars

\* C5 amended: currentSession is A before and after, and "changed" does not
\* fire for the transition.
C5_EnteringMembershipFiresNothing ==
    [][C5_Scenario =>
         /\ currentSession = sessions[1]
         /\ currentSession' = sessions[1]
         /\ sessions' = sessions
         /\ changed' = 0]_vars

\* The active session has just gone from non-member B to A, the only member.
C5_Witness ==
    /\ op.name = "activeChanged"
    /\ ~disposed
    /\ Len(sessions) = 1
    /\ op.arg # None
    /\ ~has(op.arg)
    /\ op.arg2 = sessions[1]
    /\ currentSession = sessions[1]
    /\ changed = 0

\* The members other than S and N are the same before and after the step, in
\* the same order.
OthersKept(S, N) ==
    SelectSeq(sessions', LAMBDA x : x # S /\ x # N)
        = SelectSeq(sessions, LAMBDA x : x # S /\ x # N)

C7_StartUsesCurrentSession ==
    op.name = "start" =>
        /\ op.arg = currentSession
        /\ op.arg # None => calls[Len(calls)].session = currentSession

\* C7 amended: start() is a no-op when there is no current session (the set is
\* empty); otherwise it asks the manager to start a session with the options of
\* the first-inserted member of the set, whether or not that is the current
\* session, and it is that member that the returned session replaces.
C7_StartUsesFirstMember ==
    [][/\ op'.name = "start" =>
            /\ op'.arg = session
            /\ (currentSession = None) <=> (session = None)
            /\ sessions' = sessions
            /\ changed' = 0
            /\ calls' = IF session = None
                          THEN calls
                          ELSE Append(calls, [kind |-> "start", session |-> sessions[1],
                                              count |-> Len(sessions)])
       /\ op'.name = "startReturn" =>
            /\ \E i \in 1..Len(calls) :
                  /\ calls[i].kind = "start"
                  /\ calls[i].session = op'.arg
                  /\ calls' = Without(calls, i)
            /\ op'.arg2 \notin {None, op'.arg} => op'.arg \notin Range(sessions')]_vars

\* start() has just been called while the current session is another member
\* than the first one.
C7_Witness ==
    /\ op.name = "start"
    /\ op.arg # None
    /\ Len(sessions) >= 2
    /\ currentSession # op.arg
    /\ calls[Len(calls)].session = sessions[1]

\* C8: restart() with a current session fires "changed" once, when it
\* completes, whatever the manager returns: the same session leaves the set as
\* it is, another one replaces the old one.  Without a current session it
\* calls nothing and fires nothing.
C8_RestartAlwaysFiresOnce ==
    [][/\ op'.name = "restart" =>
            /\ (currentSession = None) <=> (op'.arg = None)
            /\ sessions' = sessions
            /\ changed' = 0
            /\ calls' = IF currentSession = None
                          THEN calls
                          ELSE Append(calls, [kind |-> "restart", session |-> op'.arg,
                                              count |-> None])
       /\ op'.name = "restartReturn" =>
            LET S == op'.arg
                N == op'.arg2
            IN  /\ changed' = 1
                /\ \E i \in 1..Len(calls) :
                      calls[i].kind = "restart" /\ calls[i].session = S
                        /\ calls' = Without(calls, i)
                /\ N = S => sessions' = sessions
                /\ N # S => /\ S \notin Range(sessions')
                            /\ N \in Range(sessions')
                            /\ OthersKept(S, N)]_vars

\* A restart() for which the manager returned the same session has just
\* completed.
C8_Witness ==
    /\ op.name = "restartReturn"
    /\ op.arg2 = op.arg
    /\ op.arg \in Members
    /\ Len(sessions) >= 2
    /\ changed = 1

\* C9: at most one refresh cycle is executing: a cycle begins only when the
\* cycle chained before it has finished, with or without an error.
C9_RefreshCyclesSerialized == Len(running) <= 1

\* A cycle is awaiting an evaluation after a cycle that failed, another cycle
\* is chained behind it and the debounce timer is armed again.
C9_Witness ==
    /\ Len(running) = 1
    /\ running[1].afterError
    /\ queued >= 1
    /\ timer

\* C10: a cycle over an unchanging list of N expressions in which the k-th
\* evaluation raises has evaluated exactly expressions 1..k, in list order; a
\* cycle in which none raises, also one that follows a failed cycle, has
\* evaluated all N from the first.
C10_ErrorAbortsRestOfCycle ==
    (op.name = "cycleEnd" /\ finished.intact) =>
        /\ finished.failedAt <= Len(watchExpressions)
        /\ finished.failedAt # 0 =>
              finished.evaluated = SubSeq(watchExpressions, 1, finished.failedAt)
        /\ finished.failedAt = 0 => finished.evaluated = watchExpressions
        /\ lastCycle = (finished.failedAt # 0)

\* A cycle that followed a failed cycle has just ended in the error of the
\* second of three expressions.
C10_Witness ==
    /\ op.name = "cycleEnd"
    /\ finished.intact
    /\ finished.afterError
    /\ finished.failedAt = 2
    /\ Len(watchExpressions) = 3
    /\ finished.evaluated = SubSeq(watchExpressions, 1, 2)

\* C11: the triggers of one debounce window, however many (window >= 1), chain
\* exactly one refresh cycle: a trigger chains nothing and begins nothing
\* itself; the timer, when it fires, chains one cycle and is off; nothing else
\* chains a cycle; and each chained cycle leaves the queue by beginning once.
C11_OneCyclePerWindow ==
    [][/\ op'.name = "onDidChange" => queued' = queued /\ running' = running
       /\ op'.name = "timerFire" =>
            /\ window >= 1
            /\ window' = window
            /\ queued' = queued + 1
            /\ running' = running
            /\ timer /\ ~timer'
       /\ queued' > queued => op'.name = "timerFire"
       /\ queued' < queued =>
            /\ queued' = queued - 1
            /\ op'.name \in {"evaluate", "cycleEnd"}
            /\ Len(running') <= Len(running) + 1
       /\ Len(running') > Len(running) => queued' = queued - 1]_vars

\* The timer has just fired after a window of two or more triggers, and one
\* cycle is chained.
C11_Witness ==
    /\ op.name = "timerFire"
    /\ window >= 2
    /\ queued = 1
    /\ running = <<>>
    /\ ~timer

\* C12: before disposal, a change notification of the manager that carries no
\* session or a member of the set calls the debounced refresh (the timer is
\* armed from then on) and fires "changed" exactly once; a notification that
\* carries a session outside the set does neither.  Neither case chains or
\* begins a cycle itself or fires anything else.
C12_ChangeOfMemberRefreshesAndFires ==
    [][(op'.name = "onDidChange" /\ ~disposed) =>
         /\ IF op'.arg = None \/ op'.arg \in Members
              THEN timer' /\ changed' = 1
              ELSE timer' = timer /\ changed' = 0
         /\ changedBreakpoints' = None
         /\ changedWatchExpressions' = 0
         /\ <<queued, running, sessions, watchExpressions>>' =
               <<queued, running, sessions, watchExpressions>>]_vars

\* A notification for the member of the set has just armed the timer and fired
\* "changed" once.
C12_Witness ==
    /\ op.name = "onDidChange"
    /\ op.arg \in Members
    /\ ~disposed
    /\ timer
    /\ changed = 1

\* C13: before disposal, a breakpoints notification of the manager is passed
\* on, once and with the URI it carries, if it carries no session or the
\* session that is this view's current session at that moment; a notification
\* of any other session, a member of the set or not, is not passed on.  The
\* handler fires nothing else.
C13_BreakpointsOfCurrentSessionOnly ==
    (op.name = "onDidChangeBreakpoints" /\ ~disposed) =>
        /\ changedBreakpoints =
              IF op.arg = None \/ op.arg = currentSession THEN op.arg2 ELSE None
        /\ op.arg2 \in Uris
        /\ changed = 0
        /\ changedWatchExpressions = 0

\* A notification of a member that is not the current session has just been
\* dropped.
C13_Witness ==
    /\ op.name = "onDidChangeBreakpoints"
    /\ ~disposed
    /\ op.arg \in Members
    /\ op.arg # currentSession
    /\ changedBreakpoints = None

\* C14: addWatchExpression changes and fires nothing before its edit step
\* returns.  When the edit leaves the text empty, the call returns no result,
\* the list is as it was and "watch expressions changed" is not fired; when it
\* leaves a non-empty text, the created expression, and nothing else, is
\* appended at the end of the list, the signal is fired exactly once and the
\* expression is returned.
C14_AddAppendsUnlessEmpty ==
    [][/\ op'.name = "addWatchExpression" =>
            /\ watchExpressions' = watchExpressions
            /\ changedWatchExpressions' = 0
            /\ op'.arg \notin Range(watchExpressions)
       /\ op'.name = "openReturn" =>
            IF op'.arg2 = ""
              THEN /\ ret' = None
                   /\ watchExpressions' = watchExpressions
                   /\ changedWatchExpressions' = 0
              ELSE /\ ret' = op'.arg
                   /\ watchExpressions' = Append(watchExpressions, op'.arg)
                   /\ op'.arg \notin Range(watchExpressions)
                   /\ changedWatchExpressions' = 1]_vars

\* An edit has just left an empty text while the list had entries: they are
\* all there is, and nothing was fired.
C14_Witness ==
    /\ op.name = "openReturn"
    /\ op.arg2 = ""
    /\ ret = None
    /\ Len(watchExpressions) >= 1
    /\ op.arg \notin Range(watchExpressions)
    /\ changedWatchExpressions = 0

\* C15: removeWatchExpressions() on an empty list changes nothing and fires
\* nothing; on a list with entries it leaves the list empty and fires "watch
\* expressions changed" exactly once.  It fires nothing else.
C15_RemoveAllFiresIfNonEmpty ==
    [][op'.name = "removeWatchExpressions" =>
         /\ watchExpressions' = <<>>
         /\ changedWatchExpressions' = IF watchExpressions = <<>> THEN 0 ELSE 1
         /\ changed' = 0
         /\ changedBreakpoints' = None
         /\ <<opens, nextId, timer, queued>>' = <<opens, nextId, timer, queued>>]_vars

\* removeWatchExpressions() has just run on an empty list, after expressions
\* had been created: nothing was fired.
C15_Witness ==
    /\ op.name = "removeWatchExpressions"
    /\ changedWatchExpressions = 0
    /\ watchExpressions = <<>>
    /\ nextId > 1
    /\ opens = {}

ManagerEvents == {"activeChanged", "onDidChange", "onDidChangeBreakpoints"}

\* C16: once dispose() has run, a notification of the manager, whichever of
\* the three it is and whatever it carries, fires neither "changed" nor
\* "breakpoints changed" and does not touch the debounce timer or the queue:
\* the three subscriptions are released by the one dispose().  And whatever
\* still fires "changed" or "breakpoints changed" after it (a push, a delete)
\* reaches no listener.
C16_DisposedViewIgnoresManager ==
    [][disposed =>
         /\ op'.name \in ManagerEvents =>
              /\ changed' = 0
              /\ changedBreakpoints' = None
              /\ changedWatchExpressions' = 0
              /\ <<timer, queued, running, sessions>>' = <<timer, queued, running, sessions>>
         /\ disposed'
         /\ changedDelivered' = 0
         /\ changedBreakpointsDelivered' = None]_vars

\* After dispose() the manager has just notified a change of a member of the
\* set: the timer is not armed and nothing was fired.
C16_Witness ==
    /\ disposed
    /\ op.name = "onDidChange"
    /\ op.arg \in Members
    /\ changed = 0
    /\ ~timer
    /\ queued = 0

Times(e, seq) == Cardinality({k \in 1..Len(seq) : seq[k] = e})

\* C17 as stated: when a cycle ends with no evaluation having raised, every
\* expression that was in the list when the cycle began and is in it when the
\* cycle ends (an expression, once removed, does not come back) was evaluated
\* exactly once by the cycle, and no expression was evaluated twice, whatever
\* removeWatchExpression and addWatchExpression calls ran during its awaits.
C17_PresentThroughoutEvaluatedOnce ==
    (op.name = "cycleEnd" /\ finished.failedAt = 0) =>
        /\ \A e \in Range(cycleStart) \cap Range(watchExpressions) :
              Times(e, finished.evaluated) = 1
        /\ \A e \in Range(finished.evaluated) : Times(e, finished.evaluated) = 1

\* The half of C17 that the code keeps: no cycle, however it ends, evaluates
\* an expression twice.
C17_NoExpressionEvaluatedTwice ==
    op.name = "cycleEnd" =>
        \A e \in Range(finished.evaluated) : Times(e, finished.evaluated) = 1

\* C18: dispose() cancels nothing that is in flight: it leaves the calls
\* awaiting the manager, the timer, the queue and the running cycle as they
\* are.  After it, the answer of the manager to a start() or restart() call
\* still swaps the sessions and fires "changed" as before it, the armed timer
\* still chains its cycle when it fires, and a chained cycle still begins and
\* goes through the list.
C18_DisposalCancelsNothingInFlight ==
    [][/\ op'.name = "dispose" =>
            <<calls, sessions, timer, queued, running, watchExpressions>>' =
               <<calls, sessions, timer, queued, running, watchExpressions>>
       /\ disposed =>
            /\ (op'.name = "startReturn" /\ op'.arg2 # None) =>
                  /\ Range(sessions') = (Members \ {op'.arg}) \cup {op'.arg2}
                  /\ changed' = 1
            /\ op'.name = "restartReturn" =>
                  /\ Range(sessions') =
                        IF op'.arg2 # op'.arg
                          THEN (Members \ {op'.arg}) \cup {op'.arg2}
                          ELSE Members
                  /\ changed' = 1
            /\ op'.name = "timerFire" => queued' = queued + 1
            /\ (op'.name = "evaluate") =>
                  /\ Len(running') = 1
                  /\ op'.arg \in Range(watchExpressions)]_vars

\* After dispose() the manager has just answered a start() call made before it:
\* the session set has lost the old session and gained the new one, while a
\* refresh triggered before dispose() is evaluating.
C18_Witness ==
    /\ disposed
    /\ op.name = "startReturn"
    /\ op.arg2 \notin {None, op.arg}
    /\ op.arg2 \in Members
    /\ op.arg \notin Members
    /\ changed = 1
    /\ Len(running) = 1

\* C19: whatever pushes, deletes, start() and restart() calls and changes of
\* the manager's active session have happened, currentSession is absent or a
\* member of the set, and it is absent exactly when the set is empty.
C19_CurrentSessionIsMemberOrAbsent ==
    /\ currentSession = None \/ currentSession \in Members
    /\ currentSession = None <=> Members = {}

\* The manager has just answered a start() call with a new session while its
\* active session is the one that was replaced: the current session is a
\* member, not the manager's active session.
C19_Witness ==
    /\ op.name = "startReturn"
    /\ op.arg2 \notin {None, op.arg}
    /\ managerCurrent = op.arg
    /\ op.arg \notin Members
    /\ currentSession \in Members
    /\ currentSession # managerCurrent

\* A trigger arrives while the timer is armed, after time has passed, and arms
\* it anew.
Rearm == timer /\ elapsed /\ op'.name = "onDidChange" /\ changed' = 1

\* C20 as stated: under the fairness of the scheduling, every evaluation
\* returning or raising, every accepted trigger is eventually followed by a
\* cycle that begins after it and runs to its end.
C20_EveryTriggerIsServed == (follow.stage = "timer") ~> (follow = Served)

\* C20 amended: the same, unless triggers keep arriving for ever while the
\* timer is armed, each re-arming it before it fires.  A cycle that ended in
\* an error does not hold back the cycle chained behind it; and while an
\* evaluation has not completed, no chained cycle begins.
C20_TriggerIsServedUnlessRearmedForEver ==
    /\ []<><<Rearm>>_progressVars \/ C20_EveryTriggerIsServed
    /\ (lastCycle /\ queued > 0 /\ running = <<>>) ~> (running # <<>> \/ ~lastCycle)
    /\ [][(running # <<>> /\ running' # <<>>) =>
             (queued' >= queued /\ Len(running') <= 1)]_progressVars

\* The cycle of a followed trigger has just run to its end, evaluating an
\* expression, after the cycle before it had ended in an error.
C20_Witness ==
    /\ follow = Served
    /\ op.name = "cycleEnd"
    /\ finished.afterError
    /\ finished.failedAt = 0
    /\ Len(finished.evaluated) >= 1

====
